---- MODULE Spec2Model ----
(***************************************************************************)
(* The report outbox (frontend/src/lib/outbox.ts), its triggers in App.tsx *)
(* and Reports.tsx, and the tree layer's dataset loader (MapView.tsx).     *)
(*                                                                         *)
(* The awaits on the store (set, keys, get, del), on the backoff timeout   *)
(* and on the photo upload are suspension points: a task stands at a pc    *)
(* while the promise is outstanding and one action resolves it.  One call  *)
(* of sendOnce, whose awaits touch only the network and the cached API     *)
(* state, is one step together with the code around it.                    *)
(***************************************************************************)
EXTENDS Integers, Sequences, FiniteSets, TLC

\* ------------------------------------------------------------------ bounds
\* submitReport calls in one behaviour (the payloads are 1..MaxSubmits)
MaxSubmits == 2
\* flush passes that can be in progress at the same time
MaxPasses == 2
\* page reloads in one behaviour
MaxRestarts == 1
MaxCount == 2
MaxFetches == 3
MaxViewports == 2
MaxFilterSets == 2
\* heights and diameters of records and filter bounds are 0..MaxValue
MaxValue == 1
\* latitudes and longitudes of records and boxes are 0..MaxCoord
MaxCoord == 2
\* the visible subset has 0..MaxVisible records
MaxVisible == 12
\* the draw budget MAX_DRAW is 1..MaxBudget
MaxBudget == 4
\* the statistics of a drawn shape are taken over 0..MaxPicked records
MaxPicked == 3
\* a field value of the CSV export has 0..MaxLen characters
MaxLen == 3
\* sendOnce is called at most MaxAttempts times
MaxAttempts == 2
\* at most MaxDraws shapes are drawn
MaxDraws == 3
\* the debounce delay (150 ms, 250 ms) lasts DebounceTicks ticks of the clock
DebounceTicks == 2
\* reload() is called at most MaxReloads times
MaxReloads == 4
MaxMarkers == 2

\* ------------------------------------------------------- program constants
\* retryableSend(data, tries = 5)
Tries == 5
\* let wait = 500
InitialWait == 500
\* Math.min(wait * 2, 8000)
MaxWait == 8000

\* the value get(k) yields for a key that is no longer in the store
NoData == 0
Payloads == 1..MaxSubmits
SubId == 0
PassIds == 1..MaxPasses
Viewports == 1..MaxViewports
FilterSets == 1..MaxFilterSets
TaskIds == {SubId} \cup PassIds

\* HTTP statuses of the POST; 0 stands for a network error (no status)
PostStatuses == {200, 404, 405, 501, 500, 0}

VARIABLES
  store,        \* idb-keyval store "rinto-outbox": key -> payload (durable)
  idbQueue,     \* tasks whose request on the store is outstanding, in the
                \* order they issued it (IndexedDB serves them in that order)
  keySeq,       \* keys handed out so far (Date.now():randomUUID never repeats)
  online,       \* navigator.onLine
  user,         \* getAuth().currentUser is non-null
  appUp,        \* App is mounted: its effects have run
  authPending,  \* an onAuthStateChanged callback is due
  apiState,     \* localStorage["rinto:api_state"]; the module variable
                \* apiStateMemo is a copy of it (every write sets both)
  task,         \* the submit task (SubId) and the flush passes (PassIds)
  restarts,     \* page reloads so far
  calls,        \* history: what each submitReport call returned ("none": not
                \* called, "pending": not returned)
  enqLog,       \* history: key -> payload of every set() on the store
  delivered     \* history: payload -> number of sends that succeeded (counted
                \* up to MaxCount)

outboxVars == <<store, idbQueue, keySeq, online, user, appUp, authPending,
                apiState, task, restarts, calls, enqLog, delivered>>

\* TreesLayer (the map layer of the tree records)
VARIABLES
  impl,         \* which TreesLayer is mounted: "ensureTrees" (part_006, reads
                \* Firestore through allTreesRef) or "fetchTreesByApi"
                \* (MapView.tsx, asks the API); "none" before the mount
  allTreesRef,  \* allTreesRef.current holds the rows
  bounds,       \* map.getBounds(): the viewport
  filters,      \* the filters prop
  timer,        \* the debounce timeout t: NoTimer, or the ticks left until
                \* it is due
  sinceEvent,   \* history: ticks since the last moveend/zoomend (capped)
  burst,        \* history: moveend/zoomend events of the current burst, each
                \* less than the delay after the one before (capped at 2)
  reloads,      \* history: calls of reload() so far
  uncaught,     \* history: a promise of reload() was rejected, and nothing
                \* handles it
  inflight,     \* the reloads awaiting their fetch: the fetch, and the bounds
                \* and filters the reload closed over
  fetches,      \* history: fetches of the record set issued so far
  loaded,       \* history: a fetch has answered with the record set
  layer,        \* layerRef.current: the bounds and filters it was built for
  loading       \* the loading flag

treeVars == <<impl, allTreesRef, bounds, filters, timer, sinceEvent, burst,
              reloads, uncaught, inflight, fetches, loaded, layer, loading>>

\* one call of a function of the data path, examined on its own
VARIABLES
  input,        \* the arguments of the call
  output        \* its result (done is FALSE until the call has been made)

callVars == <<input, output>>

\* TreesLayer (the drawn shape and its statistics)
VARIABLES
  drawIn,        \* the TreesLayer whose draw effect has run: "ensureTrees"
                 \* (part_006), "fetchTreesByApi" (MapView.tsx), or "none"
  drawnItems,    \* the layers of the drawnItems feature group that is on the map
  areaStats,     \* part_006: the areaStats state
  rangeStats,    \* MapView.tsx: the rangeStats state, the newest payload first
  renderPending, \* MapView.tsx: a state update of MapView awaits its render
  lastDraw,      \* history: the last draw:created event
  lastOp,        \* history: what the last step of the drawing was
  draws          \* history: draw:created events so far

drawVars == <<drawIn, drawnItems, areaStats, rangeStats, renderPending,
              lastDraw, lastOp, draws>>

\* one sendOnce, followed await by await
VARIABLES
  sendOf,        \* the sendOnce that is followed: "cached" (part_012 105-133,
                 \* with the API-state cache), "apiOnly" (241-258, no
                 \* fallback), "fallback" (338-364), or "none"
  sendPc,        \* where it is: "idle", awaiting "avail" (isApiAvailable),
                 \* "token" (getIdToken), "post" (the POST), "write" (addDoc),
                 \* or ended: "returned", "thrown"
  postStatus,    \* the status of the POST of this attempt that failed (0: a
                 \* network error), NoPost if none has
  wrote,         \* the fallback write of this attempt: "no", "pending", "ok",
                 \* "failed"
  issuedNoUser,  \* history: a POST or a fallback write was issued while
                 \* currentUser was null
  attempts       \* history: sendOnce calls so far

sendVars == <<sendOf, sendPc, postStatus, wrote, issuedNoUser, attempts>>

\* TreesLayer as a component of the page: its effect instances, its timeouts,
\* the reloads that wait for their rows, the layers on the map, the selection
VARIABLES
  file,          \* the version of TreesLayer that is mounted, "none" before
  detailMode,    \* the detailMode prop
  mounted,       \* TreesLayer is mounted
  effect,        \* the number of the effect instance that is in place
  timers,        \* the pending timeouts: the effect instance and the filters
                 \* that the reload of its closure reads
  awaiting,      \* the reloads that stand at their await
  attached,      \* the tree layers that are on the map
  layerRef,      \* layerRef.current: the id of a layer, NoRef for null
  shown,         \* the features last passed to onFeaturesChange
  selected,      \* the selected tree, Null for none
  dirty,         \* selectedId changed since the effect ran
  trigger,       \* history: what caused the latest reload
  lastStarted,   \* history: the bounds and filters of the latest reload
  overlap        \* history: a reload started while another stood at its await

compVars == <<file, detailMode, mounted, effect, timers, awaiting, attached,
              layerRef, shown, selected, dirty, trigger, lastStarted, overlap>>

vars == <<outboxVars, treeVars, callVars, drawVars, sendVars, compVars>>

\* A task: pc is the await it stands at; n the submitReport call it serves,
\* offline and nouser what that call found when it was made; data, i, wait the
\* locals of retryableSend; tried and slept the sendOnce calls and the
\* setTimeout delays of the current retryableSend; ks, idx the keys a pass
\* iterates and its position; trig what called flushOutbox ("startup", "online",
\* "auth"; once keys(store) has resolved only "startup" or "later" is kept);
\* okKeys and failKeys the entries the pass sent and gave up on.
IdleTask == [pc |-> "idle", n |-> 0, offline |-> FALSE, nouser |-> FALSE,
             data |-> NoData, i |-> 0, wait |-> 0, tried |-> 0, slept |-> <<>>,
             ks |-> <<>>, idx |-> 0, trig |-> "none", okKeys |-> {},
             failKeys |-> {}]

\* layerRef.current is null
NoLayer == [bounds |-> 0, filters |-> 0]

\* the pcs at which a task awaits a request on the store
IdbPcs == {"keys", "get", "del", "enq"}

Min(a, b) == IF a < b THEN a ELSE b

Range(q) == {q[j] : j \in 1..Len(q)}

\* the keys of the store in the order keys(store) yields them (ascending)
RECURSIVE SortedSeq(_)
SortedSeq(S) ==
  IF S = {} THEN <<>>
  ELSE LET m == CHOOSE x \in S : \A y \in S : x <= y
       IN <<m>> \o SortedSeq(S \ {m})

InitOutbox ==
  /\ store = << >>
  /\ idbQueue = << >>
  /\ keySeq = 0
  /\ online \in BOOLEAN
  /\ user \in BOOLEAN
  /\ appUp = FALSE
  /\ authPending = FALSE
  /\ apiState = "none"
  /\ task = [t \in TaskIds |-> IdleTask]
  /\ restarts = 0
  /\ calls = [n \in Payloads |-> "none"]
  /\ enqLog = << >>
  /\ delivered = [p \in {NoData} \cup Payloads |-> 0]

\* no timeout is pending
NoTimer == -1

InitTrees ==
  /\ impl = "none"
  /\ allTreesRef = FALSE
  /\ bounds = 1
  /\ filters = 1
  /\ timer = NoTimer
  /\ sinceEvent = DebounceTicks
  /\ burst = 0
  /\ reloads = 0
  /\ uncaught = FALSE
  /\ inflight = {}
  /\ fetches = 0
  /\ loaded = FALSE
  /\ layer = NoLayer
  /\ loading = FALSE

\* an absent number (null or undefined)
Null == -1

\* useRef(null): no layer is referred to
NoRef == 0

\* TreesLayer is not mounted yet
InitLayer ==
  /\ file = "none"
  /\ detailMode = "panel"
  /\ mounted = FALSE
  /\ effect = 0
  /\ timers = {}
  /\ awaiting = {}
  /\ attached = {}
  /\ layerRef = NoRef
  /\ shown = NoLayer
  /\ selected = Null
  /\ dirty = FALSE
  /\ trigger = "none"
  /\ lastStarted = NoLayer
  /\ overlap = FALSE

\* no call is examined
NoCall == [fn |-> "none"]
NoResult == [done |-> FALSE]

InitCall ==
  /\ input = NoCall
  /\ output = NoResult

\* setAreaStats({ count: 0, avgDbh: null, avgHeight: null }); null is -1
ZeroStats == [count |-> 0, avgDbh |-> -1, avgHeight |-> -1]

\* no draw:created event yet
NoDraw == [id |-> 0]

\* the draw effect of TreesLayer c has run: an empty drawnItems group
InitDrawn(c) ==
  /\ drawIn = c
  /\ drawnItems = {}
  /\ areaStats = ZeroStats
  /\ rangeStats = <<>>
  /\ renderPending = FALSE
  /\ lastDraw = NoDraw
  /\ lastOp = "none"
  /\ draws = 0

\* no POST of the attempt has failed
NoPost == -1

\* no sendOnce has been called
InitSending(c) ==
  /\ sendOf = c
  /\ sendPc = "idle"
  /\ postStatus = NoPost
  /\ wrote = "no"
  /\ issuedNoUser = FALSE
  /\ attempts = 0

Init == InitOutbox /\ InitTrees /\ InitLayer /\ InitCall /\ InitDrawn("none") /\ InitSending("none")

\* ------------------------------------------------------- API-state cache
\* getCachedApiState: the memo, else localStorage
getCachedApiState == apiState

\* ---------------------------------------------------------------- sendOnce
\* What the network and Firestore answer to one sendOnce: head, the HEAD probe
\* of isApiAvailable succeeds; st, the status of the POST (0: none, a network error);
\* fs, addDoc resolves.  Offline nothing answers.
Answers ==
  {o \in [head : BOOLEAN, st : PostStatuses, fs : BOOLEAN] :
     ~online => (~o.head /\ o.st = 0 /\ ~o.fs)}

\* a catch of sendOnce that takes every status for "no API here"
apiUnavailableAny(st) == TRUE

\* the catch of sendOnce: these statuses mean "no API here"
apiUnavailable(st) == st \in {404, 405, 501, 0}

\* isApiAvailable: the cached state, else the HEAD probe
isApiAvailable(o) ==
  IF getCachedApiState # "none" THEN getCachedApiState = "up" ELSE o.head

\* sendOnce run to its end under answers o: how it ends ("unauth", "api", "fs",
\* "httperr", "fserr") and the API state it leaves cached ("same": untouched)
sendOnce(o) ==
  IF ~user THEN [end |-> "unauth", cache |-> "same"]
  ELSE IF ~isApiAvailable(o)
  THEN [end |-> IF o.fs THEN "fs" ELSE "fserr", cache |-> "down"]
  ELSE IF o.st = 200 THEN [end |-> "api", cache |-> "up"]
  ELSE IF apiUnavailable(o.st)
  THEN [end |-> IF o.fs THEN "fs" ELSE "fserr", cache |-> "down"]
  ELSE [end |-> "httperr",
        cache |-> IF getCachedApiState = "none" THEN "up" ELSE "same"]

\* sendOnce returned (it did not throw)
Sent(e) == e \in {"api", "fs"}

\* the ways one sendOnce can end in the current state
Outcomes == {sendOnce(o) : o \in Answers}

\* setCachedApiState after a sendOnce that ended as x
CacheAfter(x) ==
  apiState' = IF x.cache # "same" THEN x.cache ELSE apiState

\* the sends that succeeded, after a sendOnce of payload d that ended as x
DeliveredAfter(d, x) ==
  IF Sent(x.end) THEN [delivered EXCEPT ![d] = Min(@ + 1, MaxCount)] ELSE delivered

\* ------------------------------------------------------------ flushOutbox
\* flushOutbox returns: what the pass sent and gave up on is kept until its
\* promise resolves
EndPass(r) == [IdleTask EXCEPT !.pc = "done", !.okKeys = r.okKeys,
                               !.failKeys = r.failKeys]

\* the for loop moves to its next key (get(k) is issued) or ends
NextEntry(r) ==
  IF r.idx < Len(r.ks)
  THEN [r EXCEPT !.pc = "get", !.idx = r.idx + 1, !.data = NoData, !.i = 0,
                 !.wait = 0, !.tried = 0, !.slept = <<>>]
  ELSE EndPass(r)

CurKey(r) == r.ks[r.idx]

\* ---------------------------------------------------------- retryableSend
\* retryableSend threw: submitReport's catch calls enqueue, flushOutbox's
\* catch leaves the entry for a later pass
Thrown(t, r) ==
  IF t = SubId
  THEN [r EXCEPT !.pc = "enq"]
  ELSE NextEntry([r EXCEPT !.failKeys =
                    IF r.data = NoData THEN @ ELSE @ \cup {CurKey(r)}])

\* retryableSend returned: submitReport returns "sent", flushOutbox calls del(k)
Returned(t, r) ==
  IF t = SubId THEN IdleTask ELSE [r EXCEPT !.pc = "del"]

\* a catch that rethrows one turn too late
CaughtLate(t, r) ==
  IF r.i = Tries
  THEN Thrown(t, r)
  ELSE [r EXCEPT !.pc = "sleep", !.slept = Append(@, r.wait)]

\* the catch of retryableSend: rethrow on the last try, else setTimeout(wait)
Caught(t, r) ==
  IF r.i = Tries - 1
  THEN Thrown(t, r)
  ELSE [r EXCEPT !.pc = "sleep", !.slept = Append(@, r.wait)]

\* one turn of the loop of retryableSend: await sendOnce(data), return or catch
Attempt(t, r, x) ==
  LET s == [r EXCEPT !.tried = @ + 1]
  IN IF Sent(x.end) THEN Returned(t, s) ELSE Caught(t, s)

\* retryableSend(data): let wait = 500, i = 0, the first turn of the loop
retryableSend(t, r, d, x) ==
  Attempt(t, [r EXCEPT !.data = d, !.i = 0, !.wait = InitialWait,
                       !.tried = 0, !.slept = <<>>], x)

\* task t moves to record r: a request on the store it awaited has been served,
\* one it now awaits has been issued; submitReport returns "sent" when the
\* submit task ends here
Goto(t, r) ==
  /\ task' = [task EXCEPT ![t] = r]
  /\ calls' = IF t = SubId /\ task[t].n # 0 /\ r.pc = "idle"
              THEN [calls EXCEPT ![task[t].n] = "sent"]
              ELSE calls
  /\ idbQueue' = LET q == IF task[t].pc \in IdbPcs THEN Tail(idbQueue) ELSE idbQueue
                 IN IF r.pc \in IdbPcs THEN Append(q, t) ELSE q

\* the request of task t on the store is the next one served
Served(t) == idbQueue # << >> /\ Head(idbQueue) = t

\* the setTimeout of retryableSend fires: wait doubles, i++, the next turn
SleepDone(t, x) ==
  /\ task[t].pc = "sleep"
  /\ Goto(t, Attempt(t, [task[t] EXCEPT !.i = @ + 1,
                                        !.wait = Min(@ * 2, MaxWait)], x))
  /\ CacheAfter(x)
  /\ delivered' = DeliveredAfter(task[t].data, x)
  /\ UNCHANGED <<store, keySeq, online, user, appUp, authPending, restarts, enqLog>>
  /\ UNCHANGED <<treeVars, callVars, drawVars, sendVars, compVars>>

\* ---------------------------------------------------------------- enqueue
\* an enqueue that reports "queued" without writing the store
enqueueLost(t) ==
  /\ task[t].pc = "enq"
  /\ Served(t)
  /\ calls' = [calls EXCEPT ![task[t].n] = "queued"]
  /\ task' = [task EXCEPT ![t] = IdleTask]
  /\ idbQueue' = Tail(idbQueue)
  /\ UNCHANGED <<store, keySeq, enqLog, online, user, appUp, authPending,
                 apiState, restarts, delivered>>
  /\ UNCHANGED <<treeVars, callVars, drawVars, sendVars, compVars>>

\* enqueue: set(id, data) under a new id completes; submitReport returns "queued"
enqueue(t) ==
  /\ task[t].pc = "enq"
  /\ Served(t)
  /\ LET id == keySeq + 1
     IN /\ keySeq' = id
        /\ store' = (id :> task[t].data) @@ store
        /\ enqLog' = (id :> task[t].data) @@ enqLog
  /\ calls' = [calls EXCEPT ![task[t].n] = "queued"]
  /\ task' = [task EXCEPT ![t] = IdleTask]
  /\ idbQueue' = Tail(idbQueue)
  /\ UNCHANGED <<online, user, appUp, authPending, apiState,
                 restarts, delivered>>
  /\ UNCHANGED <<treeVars, callVars, drawVars, sendVars, compVars>>

\* ------------------------------------------------------------ flush steps
\* the passes not yet returned; they are numbered 1, 2, .. oldest first
Passes == {t \in PassIds : task[t].pc # "idle"}

\* flushOutbox(): a new pass; keys(store) is issued
flushOutbox(trig) ==
  LET t == Cardinality(Passes) + 1
  IN /\ t <= MaxPasses
     /\ task' = [task EXCEPT ![t] = [IdleTask EXCEPT !.pc = "keys", !.trig = trig]]
     /\ idbQueue' = Append(idbQueue, t)

\* keys(store) resolves: the pass iterates the keys the store holds
FlushKeys(t) ==
  /\ task[t].pc = "keys"
  /\ Served(t)
  /\ Goto(t, NextEntry([task[t] EXCEPT
               !.ks = SortedSeq(DOMAIN store),
               !.trig = IF @ = "startup" THEN @ ELSE "later"]))
  /\ UNCHANGED <<store, keySeq, online, user, appUp, authPending, apiState, restarts, enqLog, delivered>>
  /\ UNCHANGED <<treeVars, callVars, drawVars, sendVars, compVars>>

\* get(k) resolves (undefined if the key is gone); retryableSend(data) runs
FlushGet(t, x) ==
  /\ task[t].pc = "get"
  /\ Served(t)
  /\ LET k == CurKey(task[t])
         d == IF k \in DOMAIN store THEN store[k] ELSE NoData
     IN /\ Goto(t, retryableSend(t, task[t], d, x))
        /\ delivered' = DeliveredAfter(d, x)
  /\ CacheAfter(x)
  /\ UNCHANGED <<store, keySeq, online, user, appUp, authPending, restarts, enqLog>>
  /\ UNCHANGED <<treeVars, callVars, drawVars, sendVars, compVars>>

\* a pass that goes on without deleting the entry it sent
FlushDelKeep(t) ==
  /\ task[t].pc = "del"
  /\ Served(t)
  /\ Goto(t, NextEntry([task[t] EXCEPT !.okKeys =
               IF task[t].data = NoData THEN @ ELSE @ \cup {CurKey(task[t])}]))
  /\ UNCHANGED <<store, keySeq, online, user, appUp, authPending, apiState,
                 restarts, enqLog, delivered>>
  /\ UNCHANGED <<treeVars, callVars, drawVars, sendVars, compVars>>

\* del(k) resolves; sent++; the loop goes on
FlushDel(t) ==
  /\ task[t].pc = "del"
  /\ Served(t)
  /\ LET k == CurKey(task[t])
     IN /\ store' = [y \in DOMAIN store \ {k} |-> store[y]]
        /\ Goto(t, NextEntry([task[t] EXCEPT !.okKeys =
                     IF task[t].data = NoData THEN @ ELSE @ \cup {k}]))
  /\ UNCHANGED <<keySeq, online, user, appUp, authPending, apiState, restarts, enqLog, delivered>>
  /\ UNCHANGED <<treeVars, callVars, drawVars, sendVars, compVars>>

\* the promise of a finished pass resolves
FlushReturn(t) ==
  /\ task[t].pc = "done"
  /\ task' = [u \in TaskIds |->
                IF u = SubId \/ u < t THEN task[u]
                ELSE IF u + 1 \in PassIds THEN task[u + 1] ELSE IdleTask]
  /\ idbQueue' = [j \in DOMAIN idbQueue |->
                    IF idbQueue[j] > t THEN idbQueue[j] - 1 ELSE idbQueue[j]]
  /\ calls' = calls
  /\ UNCHANGED <<store, keySeq, online, user, appUp, authPending, apiState, restarts, enqLog, delivered>>
  /\ UNCHANGED <<treeVars, callVars, drawVars, sendVars, compVars>>

\* ------------------------------------------------------------ submitReport
NextCall == 1 + Cardinality({n \in Payloads : calls[n] # "none"})

\* a submitReport that does not look at navigator.onLine
submitReportBlind(x) ==
  LET n == NextCall
      r == [IdleTask EXCEPT !.n = n, !.data = n, !.offline = ~online,
                            !.nouser = ~user]
      q == retryableSend(SubId, r, n, x)
  IN /\ task' = [task EXCEPT ![SubId] = q]
     /\ calls' = [calls EXCEPT ![n] = IF q.pc = "idle" THEN "sent" ELSE "pending"]
     /\ idbQueue' = IF q.pc = "enq" THEN Append(idbQueue, SubId) ELSE idbQueue
     /\ CacheAfter(x)
     /\ delivered' = DeliveredAfter(n, x)

\* submitReport(data): online -> retryableSend, offline -> enqueue
submitReport(x) ==
  LET n == NextCall
      r == [IdleTask EXCEPT !.n = n, !.data = n, !.offline = ~online,
                            !.nouser = ~user]
      q == IF online THEN retryableSend(SubId, r, n, x) ELSE [r EXCEPT !.pc = "enq"]
  IN /\ task' = [task EXCEPT ![SubId] = q]
     /\ calls' = [calls EXCEPT ![n] = IF q.pc = "idle" THEN "sent" ELSE "pending"]
     /\ idbQueue' = IF q.pc = "enq" THEN Append(idbQueue, SubId) ELSE idbQueue
     /\ IF online
        THEN /\ CacheAfter(x)
             /\ delivered' = DeliveredAfter(n, x)
        ELSE UNCHANGED <<apiState, delivered>>

\* Reports.onSubmit: needs a user; a photo is refused offline and uploaded
\* first online; then submitReport(payload)
onSubmit(photo, x) ==
  /\ appUp
  /\ user
  /\ task[SubId].pc = "idle"
  /\ NextCall <= MaxSubmits
  /\ ~(photo /\ ~online)
  /\ IF photo
     THEN /\ task' = [task EXCEPT ![SubId].pc = "upload"]
          /\ UNCHANGED <<calls, idbQueue, apiState, delivered>>
     ELSE submitReport(x)
  /\ UNCHANGED <<store, keySeq, online, user, appUp, authPending, restarts, enqLog>>
  /\ UNCHANGED <<treeVars, callVars, drawVars, sendVars, compVars>>

\* uploadBytes/getDownloadURL answer: a failure is toasted, else submitReport
UploadDone(ok, x) ==
  /\ task[SubId].pc = "upload"
  /\ ok => online
  /\ IF ok
     THEN submitReport(x)
     ELSE /\ task' = [task EXCEPT ![SubId] = IdleTask]
          /\ UNCHANGED <<calls, idbQueue, apiState, delivered>>
  /\ UNCHANGED <<store, keySeq, online, user, appUp, authPending, restarts, enqLog>>
  /\ UNCHANGED <<treeVars, callVars, drawVars, sendVars, compVars>>

\* ------------------------------------------------------------------- App
\* App mounts: initOutboxAutoFlush() starts a pass and listens for "online";
\* onAuthStateChanged subscribes (its first callback is due)
initOutboxAutoFlush ==
  /\ ~appUp
  /\ appUp' = TRUE
  /\ flushOutbox("startup")
  /\ authPending' = TRUE
  /\ UNCHANGED <<store, keySeq, online, user, apiState,
                 restarts, calls, enqLog, delivered>>
  /\ UNCHANGED <<treeVars, callVars, drawVars, sendVars, compVars>>

\* the network comes back and nothing listens
GoOnlineDeaf ==
  /\ ~online
  /\ online' = TRUE
  /\ UNCHANGED <<store, idbQueue, keySeq, user, appUp, authPending, apiState,
                 task, restarts, calls, enqLog, delivered>>
  /\ UNCHANGED <<treeVars, callVars, drawVars, sendVars, compVars>>

\* the network comes back; the "online" listener of initOutboxAutoFlush
GoOnline ==
  /\ ~online
  /\ online' = TRUE
  /\ IF appUp
     THEN flushOutbox("online")
     ELSE UNCHANGED <<task, idbQueue>>
  /\ UNCHANGED <<store, keySeq, user, appUp, authPending, apiState, restarts, calls, enqLog, delivered>>
  /\ UNCHANGED <<treeVars, callVars, drawVars, sendVars, compVars>>

GoOffline ==
  /\ online
  /\ online' = FALSE
  /\ UNCHANGED <<store, idbQueue, keySeq, user, appUp, authPending, apiState, task, restarts, calls, enqLog, delivered>>
  /\ UNCHANGED <<treeVars, callVars, drawVars, sendVars, compVars>>

\* the onAuthStateChanged callback of App: a signed-in user flushes the outbox
onAuthStateChanged ==
  /\ appUp
  /\ authPending
  /\ authPending' = FALSE
  /\ IF user
     THEN flushOutbox("auth")
     ELSE UNCHANGED <<task, idbQueue>>
  /\ UNCHANGED <<store, keySeq, online, user, appUp, apiState,
                 restarts, calls, enqLog, delivered>>
  /\ UNCHANGED <<treeVars, callVars, drawVars, sendVars, compVars>>

SignIn ==
  /\ ~user
  /\ user' = TRUE
  /\ authPending' = appUp
  /\ UNCHANGED <<store, idbQueue, keySeq, online, appUp, apiState,
                 task, restarts, calls, enqLog, delivered>>
  /\ UNCHANGED <<treeVars, callVars, drawVars, sendVars, compVars>>

SignOut ==
  /\ user
  /\ user' = FALSE
  /\ authPending' = appUp
  /\ UNCHANGED <<store, idbQueue, keySeq, online, appUp, apiState,
                 task, restarts, calls, enqLog, delivered>>
  /\ UNCHANGED <<treeVars, callVars, drawVars, sendVars, compVars>>

\* the page is reloaded: every task, outstanding request and module variable
\* is gone, the IndexedDB store and localStorage stay
Restart ==
  /\ appUp
  /\ restarts < MaxRestarts
  /\ restarts' = restarts + 1
  /\ appUp' = FALSE
  /\ authPending' = FALSE
  /\ task' = [t \in TaskIds |-> IdleTask]
  /\ idbQueue' = << >>
  /\ UNCHANGED <<store, keySeq, online, user, apiState, calls, enqLog, delivered>>
  /\ UNCHANGED <<treeVars, callVars, drawVars, sendVars, compVars>>

Next ==
  \/ initOutboxAutoFlush
  \/ GoOnline
  \/ GoOffline
  \/ onAuthStateChanged
  \/ SignIn
  \/ SignOut
  \/ Restart
  \/ \E photo \in BOOLEAN, x \in Outcomes : onSubmit(photo, x)
  \/ \E ok \in BOOLEAN, x \in Outcomes : UploadDone(ok, x)
  \/ enqueue(SubId)
  \/ \E t \in TaskIds, x \in Outcomes : SleepDone(t, x)
  \/ \E t \in PassIds, x \in Outcomes : FlushGet(t, x)
  \/ \E t \in PassIds : FlushKeys(t)
  \/ \E t \in PassIds : FlushDel(t)
  \/ \E t \in PassIds : FlushReturn(t)

Spec == Init /\ [][Next]_vars

\* the outbox while the user stays signed in and the client stays online: no
\* sign-out and no loss of connectivity
InitOnline == Init /\ online /\ user

NextOnline ==
  \/ initOutboxAutoFlush
  \/ onAuthStateChanged
  \/ Restart
  \/ \E photo \in BOOLEAN, x \in Outcomes : onSubmit(photo, x)
  \/ \E ok \in BOOLEAN, x \in Outcomes : UploadDone(ok, x)
  \/ enqueue(SubId)
  \/ \E t \in TaskIds, x \in Outcomes : SleepDone(t, x)
  \/ \E t \in PassIds, x \in Outcomes : FlushGet(t, x)
  \/ \E t \in PassIds : FlushKeys(t)
  \/ \E t \in PassIds : FlushDel(t)
  \/ \E t \in PassIds : FlushReturn(t)

\* every step of the program that can be taken is taken in the end: the
\* startup, the callbacks, the timers, the requests on the store and the sends
\* (the user's submits and the reloads of the page are not the program's)
SpecOnlineFair ==
  /\ InitOnline /\ [][NextOnline]_vars
  /\ WF_vars(initOutboxAutoFlush)
  /\ WF_vars(onAuthStateChanged)
  /\ WF_vars(\E ok \in BOOLEAN, x \in Outcomes : UploadDone(ok, x))
  /\ WF_vars(enqueue(SubId))
  /\ WF_vars(\E t \in TaskIds, x \in Outcomes : SleepDone(t, x))
  /\ WF_vars(\E t \in PassIds, x \in Outcomes : FlushGet(t, x))
  /\ WF_vars(\E t \in PassIds : FlushKeys(t))
  /\ WF_vars(\E t \in PassIds : FlushDel(t))
  /\ WF_vars(\E t \in PassIds : FlushReturn(t))

\* ------------------------------------------------------------- TreesLayer
\* reload() with the layer lyr on the map: the loading flag goes up, the
\* bounds are read; rows held by allTreesRef are drawn at once, else a fetch
\* is issued and awaited (ensureTrees looks at allTreesRef, fetchTreesByApi
\* always fetches)
reload(c, b, f, lyr) ==
  /\ reloads < MaxReloads
  /\ reloads' = reloads + 1
  /\ IF c = "ensureTrees" /\ allTreesRef
     THEN /\ layer' = [bounds |-> b, filters |-> f]
          /\ loading' = FALSE
          /\ UNCHANGED <<inflight, fetches, allTreesRef>>
     ELSE /\ fetches < MaxFetches
          /\ fetches' = fetches + 1
          /\ inflight' = inflight \cup {[id |-> fetches + 1, bounds |-> b, filters |-> f]}
          /\ loading' = TRUE
          /\ layer' = lyr
          /\ UNCHANGED allTreesRef

\* TreesLayer mounts: its effect calls reload() and listens to moveend/zoomend
TreesMount(c) ==
  /\ impl = "none"
  /\ impl' = c
  /\ reload(c, bounds, filters, layer)
  /\ UNCHANGED <<bounds, filters, timer, sinceEvent, burst, uncaught, loaded>>
  /\ UNCHANGED <<outboxVars, callVars, drawVars, sendVars, compVars>>

\* debounced() without clearTimeout(t): a timeout that is pending stays as it is
debouncedKeep(b) ==
  /\ impl # "none"
  /\ b # bounds
  /\ bounds' = b
  /\ timer' = IF timer = NoTimer THEN DebounceTicks ELSE timer
  /\ sinceEvent' = 0
  /\ burst' = IF timer > 0 THEN Min(burst + 1, 2) ELSE 1
  /\ UNCHANGED <<impl, allTreesRef, filters, reloads, uncaught, inflight,
                 fetches, loaded, layer, loading>>
  /\ UNCHANGED <<outboxVars, callVars, drawVars, sendVars, compVars>>

\* moveend / zoomend: debounced() clears the timeout and sets it again
debounced(b) ==
  /\ impl # "none"
  /\ b # bounds
  /\ bounds' = b
  /\ timer' = DebounceTicks
  /\ sinceEvent' = 0
  /\ burst' = IF timer > 0 THEN Min(burst + 1, 2) ELSE 1
  /\ UNCHANGED <<impl, allTreesRef, filters, reloads, uncaught, inflight,
                 fetches, loaded, layer, loading>>
  /\ UNCHANGED <<outboxVars, callVars, drawVars, sendVars, compVars>>

\* a tick of the clock: a pending timeout comes nearer; one that is due may
\* still wait for its turn
Tick ==
  /\ impl # "none"
  /\ timer' = IF timer > 0 THEN timer - 1 ELSE timer
  /\ sinceEvent' = Min(sinceEvent + 1, DebounceTicks)
  /\ UNCHANGED <<impl, allTreesRef, bounds, filters, burst, reloads, uncaught,
                 inflight, fetches, loaded, layer, loading>>
  /\ UNCHANGED <<outboxVars, callVars, drawVars, sendVars, compVars>>

\* the debounce timeout is due and fires: reload()
TimerFires ==
  /\ timer = 0
  /\ timer' = NoTimer
  /\ reload(impl, bounds, filters, layer)
  /\ UNCHANGED <<impl, bounds, filters, sinceEvent, burst, uncaught, loaded>>
  /\ UNCHANGED <<outboxVars, callVars, drawVars, sendVars, compVars>>

\* the filters prop changes: the effect is cleaned up (timeout cleared, layer
\* removed) and run again, which calls reload()
FiltersChange(f) ==
  /\ impl # "none"
  /\ f # filters
  /\ filters' = f
  /\ timer' = NoTimer
  /\ burst' = 0
  /\ reload(impl, bounds, f, NoLayer)
  /\ UNCHANGED <<impl, bounds, sinceEvent, uncaught, loaded>>
  /\ UNCHANGED <<outboxVars, callVars, drawVars, sendVars, compVars>>

\* the fetch of a reload answers: ensureTrees stores the rows in allTreesRef;
\* the reload builds the layer for the bounds and filters it closed over. A
\* failed fetch throws out of the try block: nothing is stored, the layer is
\* left, and the promise of reload() is rejected, which no caller handles;
\* finally the loading flag goes down
FetchDone(r, ok) ==
  /\ r \in inflight
  /\ inflight' = inflight \ {r}
  /\ allTreesRef' = (allTreesRef \/ (ok /\ impl = "ensureTrees"))
  /\ layer' = IF ok THEN [bounds |-> r.bounds, filters |-> r.filters] ELSE layer
  /\ uncaught' = (uncaught \/ ~ok)
  /\ loading' = FALSE
  /\ loaded' = (loaded \/ ok)
  /\ UNCHANGED <<impl, bounds, filters, timer, sinceEvent, burst, reloads,
                 fetches>>
  /\ UNCHANGED <<outboxVars, callVars, drawVars, sendVars, compVars>>

NextTrees ==
  \/ \E c \in {"ensureTrees", "fetchTreesByApi"} : TreesMount(c)
  \/ \E b \in Viewports : debounced(b)
  \/ Tick
  \/ TimerFires
  \/ \E f \in FilterSets : FiltersChange(f)
  \/ \E r \in inflight, ok \in BOOLEAN : FetchDone(r, ok)

SpecTrees == Init /\ [][NextTrees]_vars

\* the clock runs on, and a timeout that is due gets its turn
SpecTreesFair == SpecTrees /\ WF_vars(Tick) /\ WF_vars(TimerFires)

\* ------------------------------------------------------ records and filters
Values == 0..MaxValue
OptValues == {Null} \cup Values
\* species labels; "" stands for an absent species
SpeciesNames == {"a", "b"}

\* Tree: the attributes the filters look at
TreeAttrs == [height : OptValues, dbh : OptValues, species : {""} \cup SpeciesNames]

\* Filters: absent bounds are Null, no species constraint is {}
FilterValues == [minHeight : OptValues, maxHeight : OptValues, minDbh : OptValues,
                 maxDbh : OptValues, species : SUBSET SpeciesNames]

\* applyFilters of part_006, for one tree: a bound needs a number that meets it
applyFilters(t, f) ==
  /\ f.minHeight # Null => (t.height # Null /\ t.height >= f.minHeight)
  /\ f.maxHeight # Null => (t.height # Null /\ t.height <= f.maxHeight)
  /\ f.minDbh # Null => (t.dbh # Null /\ t.dbh >= f.minDbh)
  /\ f.maxDbh # Null => (t.dbh # Null /\ t.dbh <= f.maxDbh)
  /\ f.species # {} => (t.species # "" /\ t.species \in f.species)

\* applyFilters of utils/filters.ts, for one point: a bound rejects only a
\* number that misses it
utilsApplyFilters(p, f) ==
  /\ ~(f.species # {} /\ (p.species = "" \/ p.species \notin f.species))
  /\ ~(f.minHeight # Null /\ p.height # Null /\ p.height < f.minHeight)
  /\ ~(f.maxHeight # Null /\ p.height # Null /\ p.height > f.maxHeight)
  /\ ~(f.minDbh # Null /\ p.dbh # Null /\ p.dbh < f.minDbh)
  /\ ~(f.maxDbh # Null /\ p.dbh # Null /\ p.dbh > f.maxDbh)

\* TreesSearchQuerySchema accepts the query fetchTreesByApi builds from f: a
\* range with both ends must not be inverted
TreesSearchQuerySchema(f) ==
  /\ (f.minHeight # Null /\ f.maxHeight # Null) => f.minHeight <= f.maxHeight
  /\ (f.minDbh # Null /\ f.maxDbh # Null) => f.minDbh <= f.maxDbh

\* x.dbh_cm ?? 0
OrZero(v) == IF v = Null THEN 0 ELSE v

\* GET /trees/search, for one document x: height_m and a species are where
\* clauses of the Firestore query (a document without the field never meets
\* them), dbh_cm is filtered in memory
treesSearch(x, f) ==
  /\ f.minHeight # Null => (x.height # Null /\ x.height >= f.minHeight)
  /\ f.maxHeight # Null => (x.height # Null /\ x.height <= f.maxHeight)
  /\ f.minDbh # Null => OrZero(x.dbh) >= f.minDbh
  /\ f.maxDbh # Null => OrZero(x.dbh) <= f.maxDbh
  /\ f.species # {} => (x.species # "" /\ x.species \in f.species)

FilterImpls == {"part_006", "utils", "search"}

\* one of the three filters is applied to one record
FilterCalls ==
  [fn : {"applyFilters"}, impl : FilterImpls, t : TreeAttrs, f : FilterValues]

CallFilter ==
  /\ input.fn = "applyFilters"
  /\ ~output.done
  /\ output' =
       IF input.impl = "part_006"
       THEN [done |-> TRUE, failed |-> FALSE, match |-> applyFilters(input.t, input.f)]
       ELSE IF input.impl = "utils"
       THEN [done |-> TRUE, failed |-> FALSE, match |-> utilsApplyFilters(input.t, input.f)]
       ELSE IF TreesSearchQuerySchema(input.f)
       THEN [done |-> TRUE, failed |-> FALSE, match |-> treesSearch(input.t, input.f)]
       ELSE [done |-> TRUE, failed |-> TRUE, match |-> FALSE]
  /\ UNCHANGED <<input, outboxVars, treeVars, drawVars, sendVars, compVars>>

\* nothing else of the application runs
Quiet ==
  InitOutbox /\ ~online /\ ~user /\ InitTrees /\ InitLayer /\ InitDrawn("none") /\ InitSending("none")

InitFilter == Quiet /\ input \in FilterCalls /\ output = NoResult

NextFilter == CallFilter

SpecFilter == InitFilter /\ [][NextFilter]_vars

\* ------------------------------------------------------- the visible subset
Coords == 0..MaxCoord

\* a record with its position; the species is left out here
TreePoints == [lat : Coords, lng : Coords, height : OptValues, dbh : OptValues,
               species : {""}]

\* map.getBounds(): west <= east and south <= north
Boxes == {b \in [minLng : Coords, minLat : Coords, maxLng : Coords, maxLat : Coords] :
            b.minLng <= b.maxLng /\ b.minLat <= b.maxLat}

\* the bounding-box test of reload
inBox(t, b) ==
  t.lng >= b.minLng /\ t.lng <= b.maxLng /\ t.lat >= b.minLat /\ t.lat <= b.maxLat

\* reload of part_006, for one record of allTreesRef: inBox, then applyFilters
filtered(t, b, f) == inBox(t, b) /\ applyFilters(t, f)

\* reload of MapView.tsx, for one document of the trees collection:
\* fetchTreesByApi(filters) asks GET /trees/search, then the bounding box
fetchedFiltered(x, b, f) == treesSearch(x, f) /\ inBox(x, b)

VisibleCalls ==
  [fn : {"reload"}, impl : {"ensureTrees", "fetchTreesByApi"}, t : TreePoints,
   b : Boxes,
   f : {g \in FilterValues : g.species = {}}]

\* one recompute, followed for one record: is it in the visible subset
CallVisible ==
  /\ input.fn = "reload"
  /\ ~output.done
  /\ output' =
       IF input.impl = "ensureTrees"
       THEN [done |-> TRUE, failed |-> FALSE,
             visible |-> filtered(input.t, input.b, input.f)]
       ELSE IF TreesSearchQuerySchema(input.f)
       THEN [done |-> TRUE, failed |-> FALSE,
             visible |-> fetchedFiltered(input.t, input.b, input.f)]
       ELSE [done |-> TRUE, failed |-> TRUE, visible |-> FALSE]
  /\ UNCHANGED <<input, outboxVars, treeVars, drawVars, sendVars, compVars>>

InitVisible == Quiet /\ input \in VisibleCalls /\ output = NoResult

NextVisible == CallVisible

SpecVisible == InitVisible /\ [][NextVisible]_vars

\* ---------------------------------------------------------------- decimation
\* Math.ceil(a / b) for a >= 0 and b > 0
Ceil(a, b) == (a + b - 1) \div b

\* the step rounded down instead of up
stepFloor(n, maxDraw) == IF n > maxDraw THEN n \div maxDraw ELSE 1

\* const step = filtered.length > MAX_DRAW ? Math.ceil(filtered.length / MAX_DRAW) : 1
step(n, maxDraw) == IF n > maxDraw THEN Ceil(n, maxDraw) ELSE 1

\* filtered.filter((_, i) => i % step === 0): the indices that are kept
draw(n, maxDraw) == {i \in 0..(n - 1) : i % step(n, maxDraw) = 0}

\* the count the user is shown: part_006 shows the count state, which reload
\* sets to filtered.length; MapView.tsx shows features.length, and features
\* is what reload hands to onFeaturesChange: one feature per record of draw
count(c, n, maxDraw) ==
  IF c = "ensureTrees" THEN n ELSE Cardinality(draw(n, maxDraw))

DecimateCalls ==
  [fn : {"decimate"}, impl : {"ensureTrees", "fetchTreesByApi"},
   n : 0..MaxVisible, maxDraw : 1..MaxBudget]

\* the end of one recompute whose visible subset has input.n records
CallDecimate ==
  /\ input.fn = "decimate"
  /\ ~output.done
  /\ output' = [done |-> TRUE,
                draw |-> draw(input.n, input.maxDraw),
                count |-> count(input.impl, input.n, input.maxDraw)]
  /\ UNCHANGED <<input, outboxVars, treeVars, drawVars, sendVars, compVars>>

InitDecimate == Quiet /\ input \in DecimateCalls /\ output = NoResult

NextDecimate == CallDecimate

SpecDecimate == InitDecimate /\ [][NextDecimate]_vars

\* ------------------------------------------------- the drawn shape: inside
LatLngs == [lat : Coords, lng : Coords]

\* the shapes the draw control makes: an L.Rectangle over a box, and an
\* L.Polygon, here with a ring of three distinct vertices
Rectangles ==
  {[type |-> "rectangle",
    latlngs |-> << [lat |-> b.minLat, lng |-> b.minLng],
                   [lat |-> b.maxLat, lng |-> b.minLng],
                   [lat |-> b.maxLat, lng |-> b.maxLng],
                   [lat |-> b.minLat, lng |-> b.maxLng] >>] : b \in Boxes}

Polygons ==
  {[type |-> "polygon", latlngs |-> ring] :
     ring \in {vs \in [1..3 -> LatLngs] : vs[1] # vs[2] /\ vs[2] # vs[3] /\ vs[1] # vs[3]}}

Shapes == Rectangles \cup Polygons

\* Leaflet: L.Rectangle extends L.Polygon, which extends L.Polyline; getBounds
\* and getLatLngs are methods of L.Polyline, so every drawn shape has both
hasGetBounds(shape) == shape.type \in {"rectangle", "polygon"}

\* Leaflet: shape.getBounds() is the smallest box around the vertices
getBounds(shape) ==
  LET vs == Range(shape.latlngs)
  IN [minLat |-> CHOOSE m \in {v.lat : v \in vs} : \A v \in vs : m <= v.lat,
      maxLat |-> CHOOSE m \in {v.lat : v \in vs} : \A v \in vs : m >= v.lat,
      minLng |-> CHOOSE m \in {v.lng : v \in vs} : \A v \in vs : m <= v.lng,
      maxLng |-> CHOOSE m \in {v.lng : v \in vs} : \A v \in vs : m >= v.lng]

\* Leaflet: LatLngBounds.contains(latlng), closed on the four sides
contains(b, lat, lng) ==
  lat >= b.minLat /\ lat <= b.maxLat /\ lng >= b.minLng /\ lng <= b.maxLng

\* pointInPolygon: ray casting. The edge from vs[j] to vs[i] is crossed when
\* (yi > y) !== (yj > y) && x < ((xj - xi) * (y - yi)) / denom + xi, with
\* denom = yj - yi, which is not 0 where the first conjunct holds; the
\* comparison is multiplied out by denom to stay within the integers
intersect(x, y, vi, vj) ==
  LET xi == vi.lng  yi == vi.lat
      xj == vj.lng  yj == vj.lat
      denom == yj - yi
  IN /\ (yi > y) # (yj > y)
     /\ IF denom > 0
        THEN (x - xi) * denom < (xj - xi) * (y - yi)
        ELSE (x - xi) * denom > (xj - xi) * (y - yi)

pointInPolygon(lat, lng, vs) ==
  LET n == Len(vs)
      prev(i) == IF i = 1 THEN n ELSE i - 1
  IN Cardinality({i \in 1..n : intersect(lng, lat, vs[i], vs[prev(i)])}) % 2 = 1

\* inside of onCreated: the getBounds branch comes first
inside(shape, lat, lng) ==
  IF hasGetBounds(shape)
  THEN contains(getBounds(shape), lat, lng)
  ELSE pointInPolygon(lat, lng, shape.latlngs)

InsideCalls == [fn : {"inside"}, shape : Shapes, lat : Coords, lng : Coords]

\* onCreated decides for one rendered record whether the shape holds it
CallInside ==
  /\ input.fn = "inside"
  /\ ~output.done
  /\ output' = [done |-> TRUE, picked |-> inside(input.shape, input.lat, input.lng)]
  /\ UNCHANGED <<input, outboxVars, treeVars, drawVars, sendVars, compVars>>

InitInside == Quiet /\ input \in InsideCalls /\ output = NoResult

NextInside == CallInside

SpecInside == InitInside /\ [][NextInside]_vars

\* ----------------------------------------------- the drawn shape: averages
\* the properties of a picked feature: dbh_cm and height_m are a number, or
\* null where the record has none
Props == [dbh_cm : OptValues, height_m : OptValues]

RECURSIVE SeqsUpTo(_, _)
SeqsUpTo(S, n) ==
  IF n = 0 THEN {<<>>}
  ELSE LET shorter == SeqsUpTo(S, n - 1)
       IN shorter \cup {Append(q, e) : q \in {r \in shorter : Len(r) = n - 1}, e \in S}

\* Number(v): Number(null) is 0
Number(v) == IF v = Null THEN 0 ELSE v

\* num: xs.map(Number).filter(Number.isFinite); every Number(v) here is finite
num(xs) == [i \in 1..Len(xs) |-> Number(xs[i])]

RECURSIVE Sum(_)
Sum(xs) == IF xs = <<>> THEN 0 ELSE xs[1] + Sum(Tail(xs))

\* avg: the mean rounded to one decimal by Math.round(mean * 10) / 10, here
\* in tenths; null for an empty list
avg(xs) ==
  IF Len(xs) > 0 THEN (20 * Sum(xs) + Len(xs)) \div (2 * Len(xs)) ELSE Null

StatsCalls == [fn : {"stats"}, props : SeqsUpTo(Props, MaxPicked)]

\* onCreated computes the statistics of the picked features
CallStats ==
  /\ input.fn = "stats"
  /\ ~output.done
  /\ output' =
       [done |-> TRUE,
        count |-> Len(input.props),
        avgDbh |-> avg(num([i \in 1..Len(input.props) |-> input.props[i].dbh_cm])),
        avgHeight |-> avg(num([i \in 1..Len(input.props) |-> input.props[i].height_m]))]
  /\ UNCHANGED <<input, outboxVars, treeVars, drawVars, sendVars, compVars>>

InitStats == Quiet /\ input \in StatsCalls /\ output = NoResult

NextStats == CallStats

SpecStats == InitStats /\ [][NextStats]_vars

\* ------------------------------------- the drawn shape and its statistics
\* the shapes drawn here: the rectangles from the origin, and a triangle
DrawnShapes ==
  {sh \in Rectangles : sh.latlngs[1] = [lat |-> 0, lng |-> 0]
                         /\ sh.latlngs[3].lat = sh.latlngs[3].lng
                         /\ sh.latlngs[3].lat > 0}
    \cup {[type |-> "polygon",
           latlngs |-> [i \in 1..3 |->
                          IF i = 1 THEN [lat |-> 0, lng |-> 0]
                          ELSE IF i = 2 THEN [lat |-> 0, lng |-> MaxCoord]
                          ELSE [lat |-> MaxCoord, lng |-> 0]]]}

\* the features of layerRef.current at the time of a draw: none, a record at
\* the origin with its values, and a record in the far corner without them
RenderedLayers ==
  LET a == [lat |-> 0, lng |-> 0, dbh_cm |-> MaxValue, height_m |-> MaxValue]
      b == [lat |-> MaxCoord, lng |-> MaxCoord, dbh_cm |-> Null, height_m |-> Null]
  IN {<<>>, <<a>>, <<b>>, <<a, b>>}

\* picked: the features the shape holds
picked(shape, features) ==
  SelectSeq(features, LAMBDA f : inside(shape, f.lat, f.lng))

\* the statistics onCreated computes for a shape
stats(shape, features) ==
  LET props == picked(shape, features)
  IN [count |-> Len(props),
      avgDbh |-> avg(num([i \in 1..Len(props) |-> props[i].dbh_cm])),
      avgHeight |-> avg(num([i \in 1..Len(props) |-> props[i].height_m]))]

\* onCreated without drawnItems.clearLayers()
onCreatedKeep(shape, features) ==
  /\ drawIn # "none"
  /\ ~renderPending
  /\ draws < MaxDraws
  /\ draws' = draws + 1
  /\ drawnItems' = drawnItems \cup {[id |-> draws + 1, shape |-> shape]}
  /\ IF drawIn = "ensureTrees"
     THEN /\ areaStats' = stats(shape, features)
          /\ UNCHANGED <<rangeStats, renderPending>>
     ELSE /\ rangeStats' = <<[geom |-> shape, stats |-> stats(shape, features)]>>
                             \o rangeStats
          /\ renderPending' = TRUE
          /\ UNCHANGED areaStats
  /\ lastDraw' = [id |-> draws + 1, shape |-> shape, features |-> features,
                  replaced |-> drawnItems # {}]
  /\ lastOp' = "created"
  /\ UNCHANGED drawIn
  /\ UNCHANGED <<outboxVars, treeVars, callVars, sendVars, compVars>>

\* draw:created: onCreated puts the shape in place of what drawnItems held
\* and computes the statistics; part_006 sets areaStats, MapView.tsx calls
\* onDrawComputed, which puts the payload in front of rangeStats
onCreated(shape, features) ==
  /\ drawIn # "none"
  /\ ~renderPending
  /\ draws < MaxDraws
  /\ draws' = draws + 1
  /\ drawnItems' = {[id |-> draws + 1, shape |-> shape]}
  /\ IF drawIn = "ensureTrees"
     THEN /\ areaStats' = stats(shape, features)
          /\ UNCHANGED <<rangeStats, renderPending>>
     ELSE /\ rangeStats' = <<[geom |-> shape, stats |-> stats(shape, features)]>>
                             \o rangeStats
          /\ renderPending' = TRUE
          /\ UNCHANGED areaStats
  /\ lastDraw' = [id |-> draws + 1, shape |-> shape, features |-> features,
                  replaced |-> drawnItems # {}]
  /\ lastOp' = "created"
  /\ UNCHANGED drawIn
  /\ UNCHANGED <<outboxVars, treeVars, callVars, sendVars, compVars>>

\* the remove tool of the draw control takes the shape out of drawnItems and
\* fires draw:deleted: onDeleted of part_006 resets areaStats; MapView.tsx
\* has no handler for it
onDeleted ==
  /\ drawIn # "none"
  /\ ~renderPending
  /\ drawnItems # {}
  /\ drawnItems' = {}
  /\ areaStats' = IF drawIn = "ensureTrees" THEN ZeroStats ELSE areaStats
  /\ lastOp' = "deleted"
  /\ UNCHANGED <<drawIn, rangeStats, renderPending, lastDraw, draws>>
  /\ UNCHANGED <<outboxVars, treeVars, callVars, sendVars, compVars>>

\* the clear button: part_006 clears drawGroupRef.current and resets
\* areaStats; onClear of MapView.tsx is setRangeStats([])
Clear ==
  /\ drawIn # "none"
  /\ ~renderPending
  /\ IF drawIn = "ensureTrees"
     THEN /\ drawnItems' = {}
          /\ areaStats' = ZeroStats
          /\ UNCHANGED <<rangeStats, renderPending>>
     ELSE /\ rangeStats' = <<>>
          /\ renderPending' = TRUE
          /\ UNCHANGED <<drawnItems, areaStats>>
  /\ lastOp' = "cleared"
  /\ UNCHANGED <<drawIn, lastDraw, draws>>
  /\ UNCHANGED <<outboxVars, treeVars, callVars, sendVars, compVars>>

\* MapView renders: TreesLayer gets a new onDrawComputed function, so its
\* draw effect is cleaned up (drawnItems is taken off the map) and run again
\* with a new, empty drawnItems group
Render ==
  /\ drawIn = "fetchTreesByApi"
  /\ drawnItems' = {}
  /\ renderPending' = FALSE
  /\ lastOp' = "rendered"
  /\ UNCHANGED <<drawIn, areaStats, rangeStats, lastDraw, draws>>
  /\ UNCHANGED <<outboxVars, treeVars, callVars, sendVars, compVars>>

InitDraw ==
  /\ InitOutbox /\ ~online /\ ~user /\ InitTrees /\ InitLayer /\ InitCall
  /\ InitSending("none")
  /\ \E c \in {"ensureTrees", "fetchTreesByApi"} : InitDrawn(c)

NextDraw ==
  \/ \E shape \in DrawnShapes, features \in RenderedLayers : onCreated(shape, features)
  \/ onDeleted
  \/ Clear
  \/ Render

SpecDraw == InitDraw /\ [][NextDraw]_vars

\* ---------------------------------------------------------------- CSV export
\* a string is the sequence of its characters; the characters of a field
\* value here: a letter, the comma, the double quote, the newline and the
\* backslash
Chars == {"a", ",", "\"", "\n", "\\"}

Strings == SeqsUpTo(Chars, MaxLen)

RECURSIVE Flatten(_)
Flatten(parts) == IF parts = <<>> THEN <<>> ELSE parts[1] \o Flatten(Tail(parts))

\* esc of toCSV (part_004): /[",\n]/.test(str) ? `"${str.replace(/"/g, '""')}"` : str
esc(str) ==
  IF \E i \in 1..Len(str) : str[i] \in {"\"", ",", "\n"}
  THEN <<"\"">>
         \o Flatten([i \in 1..Len(str) |->
                       IF str[i] = "\"" THEN <<"\"", "\"">> ELSE <<str[i]>>])
         \o <<"\"">>
  ELSE str

\* JSON.stringify of a string (exportCsv of MapView.tsx): the string between
\* double quotes, with \" for a double quote, \\ for a backslash and \n
\* (a backslash and the letter n) for a newline
stringify(str) ==
  <<"\"">>
    \o Flatten([i \in 1..Len(str) |->
                  IF str[i] = "\"" THEN <<"\\", "\"">>
                  ELSE IF str[i] = "\\" THEN <<"\\", "\\">>
                  ELSE IF str[i] = "\n" THEN <<"\\", "n">>
                  ELSE <<str[i]>>])
    \o <<"\"">>

CsvCalls == [fn : {"csv"}, impl : {"toCSV", "exportCsv"}, value : Strings]

\* one field of one row is written
CallCsv ==
  /\ input.fn = "csv"
  /\ ~output.done
  /\ output' = [done |-> TRUE,
                field |-> IF input.impl = "toCSV" THEN esc(input.value)
                          ELSE stringify(input.value)]
  /\ UNCHANGED <<input, outboxVars, treeVars, drawVars, sendVars, compVars>>

InitCsv == Quiet /\ input \in CsvCalls /\ output = NoResult

NextCsv == CallCsv

SpecCsv == InitCsv /\ [][NextCsv]_vars

\* ------------------------------------------------------------- normalization
\* a raw value of a document: a number, a numeric string, NaN, Infinity, null
\* or undefined; v is the number, 0 where the kind has none
Degrees == {-181, -180, -91, -90, 0, 90, 91, 180, 181}

RawValues ==
  [kind : {"number"}, v : Degrees]
    \cup [kind : {"string"}, v : {0, 91}]
    \cup [kind : {"NaN", "Infinity", "null", "undefined"}, v : {0}]

Undefined == [kind |-> "undefined", v |-> 0]

\* p.location and p.geom, where the document has them
RawPairs ==
  {[lat |-> a, lng |-> b] :
     a \in {[kind |-> "number", v |-> 0], [kind |-> "number", v |-> 91]},
     b \in {[kind |-> "number", v |-> 0], [kind |-> "number", v |-> 181]}}

NoPair == [lat |-> Undefined, lng |-> Undefined]

RawTrees ==
  [lat : RawValues, lng : RawValues,
   location : {NoPair} \cup RawPairs,
   geom : {NoPair, [lat |-> [kind |-> "number", v |-> 0],
                    lng |-> [kind |-> "number", v |-> 0]]}]

\* Number(x): a numeric string is its number, null is 0, undefined is NaN
ToNumber(x) ==
  IF x.kind = "string" THEN [kind |-> "number", v |-> x.v]
  ELSE IF x.kind = "null" THEN [kind |-> "number", v |-> 0]
  ELSE IF x.kind = "undefined" THEN [kind |-> "NaN", v |-> 0]
  ELSE x

\* Number.isFinite(x): only for a value of type number that is finite
isFinite(x) == x.kind = "number"

\* x == null
isNullish(x) == x.kind \in {"null", "undefined"}

Discarded == [kept |-> FALSE, lat |-> 0, lng |-> 0]

\* the rows of ensureTrees (part_006): Number(p.lat), Number(p.lng), and
\* null unless both are finite
ensureTreesRow(p) ==
  LET lat == ToNumber(p.lat)
      lng == ToNumber(p.lng)
  IN IF ~isFinite(lat) \/ ~isFinite(lng) THEN Discarded
     ELSE [kept |-> TRUE, lat |-> lat.v, lng |-> lng.v]

\* norm of fetchTreesByApi (MapView.tsx): p.lat and p.lng, else p.location,
\* else the coordinates of a Point; null unless both are finite
norm(p) ==
  LET hasLocation == p.location # NoPair
      first == [lat |-> p.lat, lng |-> p.lng]
      second == IF (isNullish(first.lat) \/ isNullish(first.lng)) /\ hasLocation
                THEN p.location ELSE first
      third == IF (isNullish(second.lat) \/ isNullish(second.lng)) /\ p.geom # NoPair
               THEN p.geom ELSE second
  IN IF ~isFinite(third.lat) \/ ~isFinite(third.lng) THEN Discarded
     ELSE [kept |-> TRUE, lat |-> ToNumber(third.lat).v, lng |-> ToNumber(third.lng).v]

NormCalls == [fn : {"norm"}, impl : {"ensureTrees", "fetchTreesByApi"}, p : RawTrees]

\* one document is normalized on its way into the record set
CallNorm ==
  /\ input.fn = "norm"
  /\ ~output.done
  /\ output' = [done |-> TRUE,
                row |-> IF input.impl = "ensureTrees" THEN ensureTreesRow(input.p)
                        ELSE norm(input.p)]
  /\ UNCHANGED <<input, outboxVars, treeVars, drawVars, sendVars, compVars>>

InitNorm == Quiet /\ input \in NormCalls /\ output = NoResult

NextNorm == CallNorm

SpecNorm == InitNorm /\ [][NextNorm]_vars

\* ------------------------------------------- sendOnce, await by await
\* sendViaFirestore is called: addDoc is issued
IssueWrite ==
  /\ sendPc' = "write"
  /\ wrote' = "pending"
  /\ issuedNoUser' = (issuedNoUser \/ ~user)

\* the catch of sendOnce found "no API here" (or, without a status, a network
\* error or a failed getIdToken): the cached sendOnce remembers "down"; then
\* the fallback write
Fallback ==
  /\ apiState' = IF sendOf = "cached" THEN "down" ELSE apiState
  /\ IssueWrite

\* sendOnce is called: const user = getAuth().currentUser; if (!user) throw;
\* then the first await: isApiAvailable() in the cached sendOnce,
\* user.getIdToken() in the others
SendStart ==
  /\ sendOf # "none"
  /\ sendPc \in {"idle", "returned", "thrown"}
  /\ attempts < MaxAttempts
  /\ attempts' = attempts + 1
  /\ postStatus' = NoPost
  /\ wrote' = "no"
  /\ sendPc' = IF ~user THEN "thrown"
               ELSE IF sendOf = "cached" THEN "avail" ELSE "token"
  /\ UNCHANGED <<sendOf, issuedNoUser>>
  /\ UNCHANGED <<outboxVars, treeVars, callVars, drawVars, compVars>>

\* isApiAvailable resolves: the cached state, else what the HEAD probe found,
\* which it caches; without the API sendViaFirestore is called at once, else
\* user.getIdToken()
AvailDone(head) ==
  /\ sendPc = "avail"
  /\ online \/ ~head
  /\ LET ok == IF getCachedApiState # "none" THEN getCachedApiState = "up" ELSE head
     IN /\ apiState' = IF getCachedApiState # "none" THEN apiState
                       ELSE IF head THEN "up" ELSE "down"
        /\ IF ok
           THEN /\ sendPc' = "token"
                /\ UNCHANGED <<wrote, issuedNoUser>>
           ELSE IssueWrite
  /\ UNCHANGED <<sendOf, postStatus, attempts>>
  /\ UNCHANGED <<store, idbQueue, keySeq, online, user, appUp, authPending,
                 task, restarts, calls, enqLog, delivered>>
  /\ UNCHANGED <<treeVars, callVars, drawVars, compVars>>

\* user.getIdToken() resolves and the POST is issued, or it rejects: the
\* sendOnce without fallback throws, the others catch an error without a
\* status and fall back
TokenDone(ok) ==
  /\ sendPc = "token"
  /\ IF ok
     THEN /\ sendPc' = "post"
          /\ issuedNoUser' = (issuedNoUser \/ ~user)
          /\ UNCHANGED <<wrote, apiState>>
     ELSE IF sendOf = "apiOnly"
     THEN /\ sendPc' = "thrown"
          /\ UNCHANGED <<wrote, issuedNoUser, apiState>>
     ELSE Fallback
  /\ UNCHANGED <<sendOf, postStatus, attempts>>
  /\ UNCHANGED <<store, idbQueue, keySeq, online, user, appUp, authPending,
                 task, restarts, calls, enqLog, delivered>>
  /\ UNCHANGED <<treeVars, callVars, drawVars, compVars>>

\* the POST answers with status st (0: fetch rejects, a network error)
PostDone(st) ==
  /\ sendPc = "post"
  /\ online \/ st = 0
  /\ IF st = 200
     THEN /\ sendPc' = "returned"
          /\ apiState' = IF sendOf = "cached" THEN "up" ELSE apiState
          /\ UNCHANGED <<postStatus, wrote, issuedNoUser>>
     ELSE /\ postStatus' = st
          /\ IF sendOf # "apiOnly" /\ apiUnavailable(st)
             THEN Fallback
             ELSE /\ sendPc' = "thrown"
                  /\ UNCHANGED <<wrote, issuedNoUser, apiState>>
  /\ UNCHANGED <<sendOf, attempts>>
  /\ UNCHANGED <<store, idbQueue, keySeq, online, user, appUp, authPending,
                 task, restarts, calls, enqLog, delivered>>
  /\ UNCHANGED <<treeVars, callVars, drawVars, compVars>>

\* addDoc resolves or rejects
WriteDone(ok) ==
  /\ sendPc = "write"
  /\ online \/ ~ok
  /\ wrote' = IF ok THEN "ok" ELSE "failed"
  /\ sendPc' = IF ok THEN "returned" ELSE "thrown"
  /\ UNCHANGED <<sendOf, postStatus, issuedNoUser, attempts>>
  /\ UNCHANGED <<outboxVars, treeVars, callVars, drawVars, compVars>>

InitSend ==
  /\ InitOutbox /\ InitTrees /\ InitLayer /\ InitCall /\ InitDrawn("none")
  /\ \E c \in {"cached", "apiOnly", "fallback"} : InitSending(c)

NextSend ==
  \/ SendStart
  \/ \E head \in BOOLEAN : AvailDone(head)
  \/ \E ok \in BOOLEAN : TokenDone(ok)
  \/ \E st \in PostStatuses : PostDone(st)
  \/ \E ok \in BOOLEAN : WriteDone(ok)
  \/ SignIn
  \/ SignOut
  \/ GoOnline
  \/ GoOffline

SpecSend == InitSend /\ [][NextSend]_vars

\* --------------------------------------------- TreesLayer as a component
\* the versions of TreesLayer
Files == {"MapView.tsx", "part_005", "part_006"}

\* the trees whose markers can be clicked
Markers == 1..MaxMarkers

\* reload is a useCallback with selectedId among its dependencies, and the
\* effect depends on reload; elsewhere reload is a plain function and the
\* effect depends on the filters alone
reloadIsDep(c) == c = "MapView.tsx"

\* the cleanup of the effect calls clearTimeout(t)
clearsTimeout(c) == c # "part_005"

\* the cleanup of the effect sets layerRef.current to null
nullsRef(c) == c # "part_005"

\* the rows come from fetchTreesByApi on every reload, or from ensureTrees,
\* which fetches while allTreesRef is empty
alwaysFetches(c) == c = "MapView.tsx"

\* the variables of the viewport model that the component model leaves alone
treeRest == <<impl, timer, sinceEvent, burst, inflight, fetches, loaded, layer,
              loading>>

\* the cleanup of the effect: its timeout, the layer on the map, the ref
cleanupTimers ==
  IF clearsTimeout(file) THEN {tm \in timers : tm.eff # effect} ELSE timers

cleanupAttached == {l \in attached : l.id # layerRef}

cleanupRef == IF nullsRef(file) THEN NoRef ELSE layerRef

\* the layer that reload r builds
groupLayer(r) == [id |-> r.id, bounds |-> r.bounds, filters |-> r.filters, eff |-> r.eff]

\* reload() called by effect instance e, whose closure holds the filters f,
\* with the layers att on the map and ref in layerRef: setSelected(null),
\* which changes selectedId when a tree was selected; the bounds are read;
\* the rows are awaited (rows held by allTreesRef are there at once), then the
\* layer of layerRef is removed, the new one is added and the features are
\* passed on
reloadLayer(by, e, f, att, ref) ==
  LET r == [id |-> reloads + 1, bounds |-> bounds, filters |-> f, eff |-> e] IN
  /\ reloads < MaxReloads
  /\ reloads' = reloads + 1
  /\ trigger' = by
  /\ lastStarted' = [bounds |-> bounds, filters |-> f]
  /\ overlap' = (overlap \/ awaiting # {})
  /\ selected' = Null
  /\ dirty' = (reloadIsDep(file') /\ selected # Null)
  /\ IF ~alwaysFetches(file') /\ allTreesRef
     THEN /\ attached' = {l \in att : l.id # ref} \cup {groupLayer(r)}
          /\ layerRef' = r.id
          /\ shown' = [bounds |-> r.bounds, filters |-> r.filters]
          /\ UNCHANGED awaiting
     ELSE /\ awaiting' = awaiting \cup {r}
          /\ attached' = att
          /\ layerRef' = ref
          /\ UNCHANGED shown
  /\ UNCHANGED <<allTreesRef, uncaught, bounds>>

\* TreesLayer mounts: the effect runs, calls reload() and listens to moveend
LayerMount(c, m) ==
  /\ file = "none"
  /\ file' = c
  /\ detailMode' = m
  /\ mounted' = TRUE
  /\ effect' = 1
  /\ reloadLayer("mount", 1, filters, attached, layerRef)
  /\ UNCHANGED <<filters, timers>>
  /\ UNCHANGED <<treeRest, outboxVars, callVars, drawVars, sendVars>>

\* moveend / zoomend: debounced() of the effect instance in place clears its
\* timeout and sets a new one for its reload
moveend(b) ==
  /\ mounted
  /\ b # bounds
  /\ bounds' = b
  /\ timers' = {tm \in timers : tm.eff # effect}
                 \cup {[eff |-> effect, filters |-> filters]}
  /\ UNCHANGED <<file, detailMode, mounted, effect, awaiting, attached, layerRef,
                 shown, selected, dirty, trigger, lastStarted, overlap>>
  /\ UNCHANGED <<filters, reloads, allTreesRef, uncaught>>
  /\ UNCHANGED <<treeRest, outboxVars, callVars, drawVars, sendVars>>

\* a timeout fires: the reload of its closure runs
timeout(tm) ==
  /\ tm \in timers
  /\ timers' = timers \ {tm}
  /\ UNCHANGED <<file, detailMode, mounted, effect, filters>>
  /\ reloadLayer("moveend", tm.eff, tm.filters, attached, layerRef)
  /\ UNCHANGED <<treeRest, outboxVars, callVars, drawVars, sendVars>>

\* a dependency of the effect changed: the cleanup of the instance in place
\* runs, then the effect runs again and calls reload() with the filters f
effectRun(by, f) ==
  /\ mounted
  /\ effect' = effect + 1
  /\ timers' = cleanupTimers
  /\ UNCHANGED <<file, detailMode, mounted>>
  /\ reloadLayer(by, effect + 1, f, cleanupAttached, cleanupRef)
  /\ UNCHANGED <<treeRest, outboxVars, callVars, drawVars, sendVars>>

\* the filters prop changes
setFilters(f) ==
  /\ f # filters
  /\ filters' = f
  /\ effectRun("filters", f)

\* selectedId changed and reload depends on it: the effect runs again
selectedIdChanged ==
  /\ dirty
  /\ effectRun("selection", filters)
  /\ UNCHANGED filters

\* a click on the marker of tree tr in panel mode: setSelected(tr)
click(tr) ==
  /\ mounted
  /\ detailMode = "panel"
  /\ attached # {}
  /\ tr # selected
  /\ selected' = tr
  /\ dirty' = (dirty \/ reloadIsDep(file))
  /\ UNCHANGED <<file, detailMode, mounted, effect, timers, awaiting, attached,
                 layerRef, shown, trigger, lastStarted, overlap>>
  /\ UNCHANGED <<bounds, filters, reloads, allTreesRef, uncaught>>
  /\ UNCHANGED <<treeRest, outboxVars, callVars, drawVars, sendVars>>

\* the detail panel is closed: setSelected(null)
onClose ==
  /\ mounted
  /\ detailMode = "panel"
  /\ selected # Null
  /\ selected' = Null
  /\ dirty' = (dirty \/ reloadIsDep(file))
  /\ UNCHANGED <<file, detailMode, mounted, effect, timers, awaiting, attached,
                 layerRef, shown, trigger, lastStarted, overlap>>
  /\ UNCHANGED <<bounds, filters, reloads, allTreesRef, uncaught>>
  /\ UNCHANGED <<treeRest, outboxVars, callVars, drawVars, sendVars>>

\* TreesLayer unmounts: the cleanup of the effect runs, the state is dropped
LayerUnmount ==
  /\ mounted
  /\ mounted' = FALSE
  /\ timers' = cleanupTimers
  /\ attached' = cleanupAttached
  /\ layerRef' = cleanupRef
  /\ selected' = Null
  /\ dirty' = FALSE
  /\ UNCHANGED <<file, detailMode, effect, awaiting, shown, trigger, lastStarted,
                 overlap>>
  /\ UNCHANGED <<bounds, filters, reloads, allTreesRef, uncaught>>
  /\ UNCHANGED <<treeRest, outboxVars, callVars, drawVars, sendVars>>

\* the arrival of the rows without the removal of the layer of layerRef
rowsArriveKeep(r, ok) ==
  /\ r \in awaiting
  /\ awaiting' = awaiting \ {r}
  /\ IF ok
     THEN /\ attached' = attached \cup {groupLayer(r)}
          /\ layerRef' = r.id
          /\ shown' = [bounds |-> r.bounds, filters |-> r.filters]
          /\ allTreesRef' = (allTreesRef \/ ~alwaysFetches(file))
          /\ UNCHANGED uncaught
     ELSE /\ uncaught' = TRUE
          /\ UNCHANGED <<attached, layerRef, shown, allTreesRef>>
  /\ UNCHANGED <<file, detailMode, mounted, effect, timers, selected, dirty,
                 trigger, lastStarted, overlap>>
  /\ UNCHANGED <<bounds, filters, reloads>>
  /\ UNCHANGED <<treeRest, outboxVars, callVars, drawVars, sendVars>>

\* the rows of reload r arrive, and r goes on without looking at the effect
\* instance in place: the layer of layerRef is removed, the layer of r is
\* added and referred to, the features are passed on. A failed fetch throws
\* out of reload: nothing is drawn
rowsArrive(r, ok) ==
  /\ r \in awaiting
  /\ awaiting' = awaiting \ {r}
  /\ IF ok
     THEN /\ attached' = {l \in attached : l.id # layerRef} \cup {groupLayer(r)}
          /\ layerRef' = r.id
          /\ shown' = [bounds |-> r.bounds, filters |-> r.filters]
          /\ allTreesRef' = (allTreesRef \/ ~alwaysFetches(file))
          /\ UNCHANGED uncaught
     ELSE /\ uncaught' = TRUE
          /\ UNCHANGED <<attached, layerRef, shown, allTreesRef>>
  /\ UNCHANGED <<file, detailMode, mounted, effect, timers, selected, dirty,
                 trigger, lastStarted, overlap>>
  /\ UNCHANGED <<bounds, filters, reloads>>
  /\ UNCHANGED <<treeRest, outboxVars, callVars, drawVars, sendVars>>

NextLayer ==
  \/ \E c \in Files, m \in {"panel", "popup"} : LayerMount(c, m)
  \/ \E b \in Viewports : moveend(b)
  \/ \E tm \in timers : timeout(tm)
  \/ \E f \in FilterSets : setFilters(f)
  \/ selectedIdChanged
  \/ \E tr \in Markers : click(tr)
  \/ onClose
  \/ LayerUnmount
  \/ \E r \in awaiting, ok \in BOOLEAN : rowsArrive(r, ok)

SpecLayer == Init /\ [][NextLayer]_vars

\* ===================================================================== claims
\* boundsContains of the specification: closed on all four bounds
boundsContains(b, t) ==
  /\ b.minLng <= t.lng /\ t.lng <= b.maxLng
  /\ b.minLat <= t.lat /\ t.lat <= b.maxLat

\* matchesFilter of the specification: every bound present needs the field
\* present and within the bound; a species set needs a species in it
matchesFilter(t, f) ==
  /\ f.minHeight # Null => (t.height # Null /\ f.minHeight <= t.height)
  /\ f.maxHeight # Null => (t.height # Null /\ t.height <= f.maxHeight)
  /\ f.minDbh # Null => (t.dbh # Null /\ f.minDbh <= t.dbh)
  /\ f.maxDbh # Null => (t.dbh # Null /\ t.dbh <= f.maxDbh)
  /\ f.species # {} => t.species \in f.species

\* the passes that have not returned from flushOutbox
Running == {t \in PassIds : task[t].pc \notin {"idle", "done"}}

\* a step of the passes other than the resolution of a pass's promise, which
\* renumbers them
SamePasses == Passes' = Passes

\* C1: a key leaves the durable store only in a step after which a send of
\* its payload has succeeded; and when a pass ends, every entry on which it
\* exhausted its retries is in the store with the payload it was enqueued with.
C1_DeleteOnlyAfterSend ==
  [][/\ \A k \in DOMAIN store :
          k \notin DOMAIN store' => delivered'[store[k]] >= 1
     /\ \A t \in PassIds :
          (task[t].pc \notin {"idle", "done"} /\ task'[t].pc = "done"
             /\ SamePasses) =>
            \A k \in task'[t].failKeys :
              k \in DOMAIN store' /\ store'[k] = enqLog[k]]_vars

\* C2: when submitReport returns "sent", a send of its payload has succeeded;
\* when it returns "queued", this very step wrote the payload to the durable
\* store; so at return the payload is delivered or in the outbox.
C2_ReturnMeansSentOrStored ==
  [][\A n \in Payloads :
       /\ (calls[n] # "sent" /\ calls'[n] = "sent") => delivered'[n] >= 1
       /\ (calls[n] # "queued" /\ calls'[n] = "queued") =>
            \E k \in DOMAIN store' \ DOMAIN store : store'[k] = n]_vars

\* both results have been returned
C2_Witness == calls[1] = "queued" /\ calls[2] = "sent" /\ delivered[2] >= 1

\* C3: a submitReport call made while no user is signed in never returns
\* "queued" and never writes to the outbox.
C3_NoUserNeverQueued ==
  [][task[SubId].nouser =>
       /\ calls'[task[SubId].n] # "queued"
       /\ DOMAIN store' \subseteq DOMAIN store]_vars

\* C4: a retryableSend makes at most 5 sendOnce calls, has slept 500, 1000,
\* 2000, 4000 ms before calls 2..5 (never above 8000), sleeps only between
\* calls, does not sleep after a success nor after the fifth failure.
C4_RetrySchedule ==
  \A t \in TaskIds :
    LET r == task[t]
    IN /\ r.tried <= Tries
       /\ r.wait <= MaxWait
       /\ \A j \in 1..Len(r.slept) : r.slept[j] = InitialWait * 2^(j - 1)
       /\ r.pc = "sleep" => (Len(r.slept) = r.tried /\ r.tried < Tries)
       /\ r.pc = "del" => Len(r.slept) = r.tried - 1
       /\ (r.pc = "enq" /\ ~r.offline) =>
            (r.tried = Tries /\ Len(r.slept) = Tries - 1)

\* a retryableSend that failed five times, with its four sleeps
C4_Witness ==
  /\ task[SubId].pc = "enq"
  /\ task[SubId].tried = 5
  /\ task[SubId].slept = <<500, 1000, 2000, 4000>>

\* C5: a submitReport call made offline makes no send attempt (none of its
\* payload succeeds, none is counted), awaits only enqueue, and enqueue writes
\* the payload under a key no entry ever had.
C5_OfflineEnqueues ==
  [][/\ task'[SubId].offline =>
          (task'[SubId].pc = "enq" /\ task'[SubId].tried = 0
             /\ delivered'[task'[SubId].data] = 0)
     /\ (task[SubId].offline /\ calls' # calls) =>
          \E k \in DOMAIN store' :
            /\ k \notin DOMAIN enqLog
            /\ store'[k] = task[SubId].data
            /\ calls'[task[SubId].n] = "queued"]_vars

\* an offline call awaits its enqueue after an earlier call was queued
C5_Witness ==
  /\ task[SubId].pc = "enq"
  /\ task[SubId].offline
  /\ task[SubId].n = 2
  /\ calls[1] = "queued"
  /\ 1 \in DOMAIN store

\* C6: mounting the application starts a pass, and so does every change of
\* navigator.onLine from false to true while it is mounted; the pass iterates
\* all the keys the store holds when keys(store) resolves.
C6_FlushOnStartupAndOnline ==
  [][/\ ((~appUp /\ appUp') \/ (appUp /\ appUp' /\ ~online /\ online')) =>
          \E t \in PassIds : task[t].pc = "idle" /\ task'[t].pc = "keys"
     /\ \A t \in PassIds :
          (task[t].pc = "keys" /\ task'[t].pc # "keys" /\ SamePasses) =>
            IF store = << >>
            THEN task'[t].pc = "done"
            ELSE /\ task'[t].pc = "get"
                 /\ task'[t].idx = 1
                 /\ Range(task'[t].ks) = DOMAIN store]_vars

\* the online event has started a pass over a non-empty outbox
C6_Witness ==
  /\ online
  /\ store # << >>
  /\ \E t \in PassIds : task[t].pc = "keys" /\ task[t].trig = "online"

\* C7: a reload leaves the store as it is; the pass started at mount ends only
\* after it has attempted (sent, or exhausted its retries on) every entry it
\* found in the store; a key that has left the store never comes back.
C7_SurvivesRestart ==
  [][/\ restarts' # restarts => store' = store
     /\ \A t \in PassIds :
          (task[t].trig = "startup" /\ task[t].pc \in {"get", "sleep", "del"}
             /\ task'[t].pc = "done" /\ SamePasses) =>
            Range(task[t].ks) \subseteq task'[t].okKeys \cup task'[t].failKeys
     /\ \A k \in DOMAIN enqLog :
          k \notin DOMAIN store => k \notin DOMAIN store']_vars

\* C8: at most one flush pass is running at any time.
C8_OnePassAtATime == Cardinality(Running) <= 1

\* C9: while a pass works on an entry (get, send attempts, sleeps, del), and
\* when it ends, every entry it sent before is gone from the durable store.
C9_DeletedBeforeNext ==
  \A t \in PassIds :
    task[t].pc \in {"get", "sleep", "del", "done"} =>
      \A k \in task[t].okKeys : k \notin DOMAIN store

\* a pass retrying its second entry after it sent the first
C9_Witness ==
  \E t \in PassIds :
    /\ task[t].pc = "sleep"
    /\ task[t].idx = 2
    /\ task[t].data # NoData
    /\ task[t].okKeys = {task[t].ks[1]}

\* C10: a fetch of the record set is issued only when none is in flight and
\* none has answered with the record set: viewport and filter changes cause
\* no second fetch.
C10_FetchAtMostOnce ==
  [][fetches' # fetches => (inflight = {} /\ ~loaded)]_vars

\* C11: after a recompute for box V and filter F has completed, a record of
\* the working set is in the visible subset exactly if its position is inside
\* V, bounds included, and it satisfies F.
C11_VisibleSubset ==
  (output.done /\ input.fn = "reload" /\ ~output.failed) =>
    (output.visible <=>
       (boundsContains(input.b, input.t) /\ matchesFilter(input.t, input.f)))

\* C12: a moveend/zoomend event starts no recompute, it only sets the timeout
\* again; a recompute that neither the mount nor a change of the filters
\* started is started by the timeout, only when the whole delay has passed
\* since the last event, and leaves no timeout pending, so a burst gets one
\* recompute; and a pending timeout does fire unless a new event or a change
\* of the filters replaces it.
C12_BurstOneRecompute ==
  /\ [][bounds' # bounds => (reloads' = reloads /\ timer' = DebounceTicks)]_vars
  /\ [][(reloads' # reloads /\ filters' = filters /\ impl' = impl) =>
          /\ timer = 0 /\ sinceEvent = DebounceTicks
          /\ timer' = NoTimer /\ reloads' = reloads + 1]_vars
  /\ (timer # NoTimer /\ sinceEvent > 0 /\ reloads < MaxReloads
        /\ fetches < MaxFetches)
       ~> (timer = NoTimer \/ sinceEvent = 0)

\* a burst of two events has ended and the timeout has fired
C12_Witness ==
  burst = 2 /\ timer = NoTimer /\ sinceEvent = DebounceTicks /\ reloads = 2

\* C13: when the fetch of a recompute fails, the record set and the layer
\* stay as they were and the failure is caught: no promise of reload() is
\* left rejected and unhandled.
C13_FetchFailureCaught ==
  [][(inflight' # inflight /\ ~loaded' /\ fetches' = fetches)
       => (allTreesRef' = allTreesRef /\ layer' = layer /\ ~uncaught')]_vars

C15_DecimationWithinBudget ==
  (output.done /\ input.fn = "decimate") =>
    LET V == input.n
        B == input.maxDraw
    IN /\ output.draw = {i \in 0..(V - 1) : i % Ceil(V, B) = 0}
       /\ V > B => Cardinality(output.draw) <= B
       /\ V <= B => output.draw = 0..(V - 1)

\* a visible subset over the budget, and not a multiple of it, was decimated
C15_Witness ==
  /\ output.done /\ input.fn = "decimate"
  /\ input.n > input.maxDraw
  /\ input.n % input.maxDraw # 0
  /\ Cardinality(output.draw) < input.n

\* the values of xs that are present, in order
RECURSIVE Present(_)
Present(xs) ==
  IF xs = <<>> THEN <<>>
  ELSE IF xs[1] = Null THEN Present(Tail(xs))
  ELSE <<xs[1]>> \o Present(Tail(xs))

\* the mean of xs in tenths, rounded to the nearest, halves up
MeanTenths(xs) == (20 * Sum(xs) + Len(xs)) \div (2 * Len(xs))

\* C16: the average height, and the average diameter, of a drawn shape is the
\* mean over the contained records that have the value; a record without it
\* is not counted as zero, and the average is null when no record has it.
C16_AverageOverPresent ==
  (output.done /\ input.fn = "stats") =>
    LET hs == Present([i \in 1..Len(input.props) |-> input.props[i].height_m])
        ds == Present([i \in 1..Len(input.props) |-> input.props[i].dbh_cm])
    IN /\ output.avgHeight = IF hs = <<>> THEN Null ELSE MeanTenths(hs)
       /\ output.avgDbh = IF ds = <<>> THEN Null ELSE MeanTenths(ds)

\* C17: for a drawn polygon, a rendered record is counted exactly if the ray
\* casting test over the polygon's ring is true for its position; a record
\* inside the bounding box but outside the polygon is not counted.
C17_PolygonByRayCasting ==
  (output.done /\ input.fn = "inside" /\ input.shape.type = "polygon") =>
    (output.picked <=> pointInPolygon(input.lat, input.lng, input.shape.latlngs))

C19_ClearAndReplaceResetStats ==
  /\ lastOp = "cleared" =>
       (drawnItems = {} /\ areaStats = ZeroStats /\ rangeStats = <<>>)
  /\ lastOp = "created" =>
       IF drawIn = "ensureTrees"
       THEN areaStats = stats(lastDraw.shape, lastDraw.features)
       ELSE rangeStats = <<[geom |-> lastDraw.shape,
                            stats |-> stats(lastDraw.shape, lastDraw.features)]>>

\* what a CSV parser (RFC 4180) makes of a text that is not one field
NotOneField == <<"not one field">>

\* the inside of a quoted field from position i on: "" is a double quote, a
\* single double quote ends the field and must end the text
RECURSIVE ParseQuoted(_, _)
ParseQuoted(s, i) ==
  IF i > Len(s) THEN NotOneField
  ELSE IF s[i] # "\"" THEN
         LET rest == ParseQuoted(s, i + 1)
         IN IF rest = NotOneField THEN NotOneField ELSE <<s[i]>> \o rest
  ELSE IF i = Len(s) THEN <<>>
  ELSE IF s[i + 1] = "\"" THEN
         LET rest == ParseQuoted(s, i + 2)
         IN IF rest = NotOneField THEN NotOneField ELSE <<"\"">> \o rest
  ELSE NotOneField

\* the value a CSV parser reads from the text of one field
ParseField(s) ==
  IF s # <<>> /\ s[1] = "\"" THEN ParseQuoted(s, 2)
  ELSE IF \E i \in 1..Len(s) : s[i] \in {"\"", ",", "\n"} THEN NotOneField
  ELSE s

\* C21: a field value with a comma, a double quote or a newline is written
\* between double quotes with every double quote of it doubled, so that a
\* CSV parser reads the value back.
C21_CsvRoundTrip ==
  (output.done /\ input.fn = "csv"
     /\ \E i \in 1..Len(input.value) : input.value[i] \in {"\"", ",", "\n"}) =>
    /\ output.field[1] = "\"" /\ output.field[Len(output.field)] = "\""
    /\ ParseField(output.field) = input.value

\* C22: a record that normalization keeps for the record set has its lat
\* within [-90, 90] and its lng within [-180, 180]; a raw record whose
\* position is outside is discarded.
C22_PositionInRange ==
  (output.done /\ input.fn = "norm" /\ output.row.kept) =>
    /\ -90 <= output.row.lat /\ output.row.lat <= 90
    /\ -180 <= output.row.lng /\ output.row.lng <= 180

\* C23: a send attempt (of a sendOnce with a fallback) whose POST failed with
\* 404, 405 or 501 or with a network error has gone through the fallback
\* write, and returns exactly if the write succeeded; one whose POST failed
\* with another status has thrown and has written nothing.
C23_FallbackOnlyWhenUnavailable ==
  (sendOf \in {"cached", "fallback"} /\ sendPc \in {"returned", "thrown"}
     /\ postStatus # NoPost) =>
    IF postStatus \in {404, 405, 501, 0}
    THEN wrote \in {"ok", "failed"} /\ (sendPc = "returned" <=> wrote = "ok")
    ELSE wrote = "no" /\ sendPc = "thrown"

\* a POST failed with 404 and the fallback write made the attempt count as sent
C23_Witness ==
  /\ sendOf \in {"cached", "fallback"}
  /\ sendPc = "returned" /\ postStatus = 404 /\ wrote = "ok"

\* C24: no POST of a report and no fallback write is issued while the current
\* user is null.
C24_NothingIssuedWithoutUser ==
  ~issuedNoUser

\* C25: no payload passed to submitReport is delivered to the server more
\* than once.
C25_DeliveredAtMostOnce ==
  \A p \in Payloads : delivered[p] <= 1

\* a step in which a send attempt fails and retryableSend goes to sleep
SendFails ==
  \E t \in TaskIds : task'[t].pc = "sleep" /\ task'[t] # task[t]

\* C27: while the user stays signed in and the client stays online, and if
\* from some time on no send attempt fails, every entry in the outbox is
\* eventually sent and removed: an outbox with entries becomes empty.
C27_OutboxEventuallyEmpty ==
  <>[][~SendFails]_vars => ((store # << >>) ~> (store = << >>))

\* C26: when a reload started while another stood at its await, no fetch
\* failed and every reload has got its rows, the layer on the map and the
\* features passed on are those of the bounds and filters of the reload that
\* started last
C26_LaterStartedWins ==
  (file = "MapView.tsx" /\ mounted /\ overlap /\ ~uncaught /\ awaiting = {})
    => /\ shown = lastStarted
       /\ \A l \in attached : [bounds |-> l.bounds, filters |-> l.filters] = lastStarted
       /\ attached # {}

\* C28: at most one tree layer is on the map at any time, whatever the order
\* of reloads, arrivals of rows, filter changes and the unmount
C28_AtMostOneLayer == Cardinality(attached) <= 1

\* a reload of an earlier effect instance got its rows after the cleanup of
\* that instance, and its layer is the one on the map
C28_Witness ==
  /\ file = "MapView.tsx"
  /\ Cardinality(attached) = 1
  /\ \E l \in attached : l.eff < effect /\ layerRef = l.id

\* C29: every reload that starts runs for the component while it is mounted
\* and with the filters that are applied: none that an earlier effect instance
\* scheduled starts after the filters changed or after the unmount
C29_NoStaleReload ==
  [][reloads' # reloads => (mounted' /\ lastStarted'.filters = filters')]_vars

\* C30: in panel mode a selected tree is deselected only by closing the panel
\* or by a reload that a move of the map or a change of the filters caused
C30_SelectionStays ==
  [][(file = "MapView.tsx" /\ detailMode = "panel" /\ mounted' /\ selected # Null
        /\ selected' = Null /\ reloads' # reloads)
      => trigger' \in {"moveend", "filters"}]_vars

\* C20: a record without a height does not match a filter that bounds the
\* height, a record without a diameter does not match a filter that bounds
\* the diameter, and no record matches a filter with an inverted range.
C20_MissingFieldFailsBound ==
  (output.done /\ input.fn = "applyFilters" /\ output.match) =>
    LET t == input.t
        f == input.f
    IN /\ (f.minHeight # Null \/ f.maxHeight # Null) => t.height # Null
       /\ (f.minDbh # Null \/ f.maxDbh # Null) => t.dbh # Null
       /\ (f.minHeight # Null /\ f.maxHeight # Null) => f.minHeight <= f.maxHeight
       /\ (f.minDbh # Null /\ f.maxDbh # Null) => f.minDbh <= f.maxDbh

====
